---- MODULE Spec2Model ----
(***************************************************************************)
(* The governance service of huobi-chain                                   *)
(* (src/services/governance/src/lib.rs, types.rs) as a state machine.      *)
(*                                                                         *)
(* State: the three values the service keeps in its key/value store, the   *)
(* profit ledger, the Metadata held by the metadata service behind the     *)
(* gateway, and a record of the last invocation (its inputs, its gateway   *)
(* traffic, the events it emitted, its response, whether it panicked).     *)
(***************************************************************************)
EXTENDS Integers, Sequences, FiniteSets, TLC

VARIABLES
    info,           \* Option<GovernanceInfo> stored under ADMIN_KEY: <<>> or <<info>>
    fee_address,    \* Option<Address> stored under FEE_ADDRESS_KEY
    miner_address,  \* Option<Address> stored under MINER_ADDRESS_KEY
    profits,        \* the StoreMap "profit": a function from its keys to u64
    metadata,       \* the Metadata the metadata service holds
    call,           \* the last invocation: [op, ctx, payload]
    gateway,        \* the sdk.read / sdk.write requests of the last invocation, in order
    events,         \* the events the last invocation emitted into its context
    resp,           \* the response of the last invocation
    fault,          \* TRUE once an invocation panicked (expect / unwrap)
    accumulated     \* how many accumulate_profit calls the run has made

vars == <<info, fee_address, miner_address, profits, metadata, call, gateway,
          events, resp, fault, accumulated>>

(***************************************************************************)
(* Bounds and input sets                                                   *)
(***************************************************************************)

\* The largest value of the model's unsigned word.  The code's u64 ends at
\* 2^64 - 1, beyond TLC's integers; every use of the width in the code is a
\* checked operation, that is a comparison against this threshold.
MaxU64 == 1073741823

\* How many accumulate_profit calls one run makes.
MaxAccumulate == 2

MILLION == 1000000
HUNDRED == 100

Address == {"alice", "bob"}

DiscountLevel(amount, ratio) == [amount |-> amount, discount_per_million |-> ratio]

\* Discount tables a genesis or set_govern_info payload may carry; the second is unsorted.
DiscountTables ==
    { << DiscountLevel(0, MILLION) >>,
      << DiscountLevel(1000, 50), DiscountLevel(0, HUNDRED) >>,
      << DiscountLevel(1000, MaxU64) >> }

GovernInfos ==
    [ admin              : Address,
      tx_failure_fee     : {10},
      tx_floor_fee       : {100},
      profit_deduct_rate : {MILLION},
      tx_fee_discount    : DiscountTables,
      miner_benefit      : {160} ]

\* The genesis payloads: the fee account and the miner account are accounts of
\* their own, as in a chain's genesis file.
GenesisPayloads ==
    [ info : GovernInfos, fee_address : {"fee_account"}, miner_address : {"miner_account"} ]

AccumulateAmounts == {1, MaxU64}

FeeProfits == {50, 1000, 2000}

Validators == { <<>>, << "v1" >> }
Intervals == {3000, 5000}
Ratios ==
    { [propose_ratio |-> 15, prevote_ratio |-> 10, precommit_ratio |-> 11, brake_ratio |-> 7],
      [propose_ratio |-> 16, prevote_ratio |-> 12, precommit_ratio |-> 13, brake_ratio |-> 8] }

\* The contexts the dispatcher hands to a handler or to the post-transaction hook.
Contexts == [ caller : Address, cycles_used : {21000}, events : {<<>>} ]

\* The block parameters the dispatcher hands to the post-block hook.
ExecutorParams ==
    [ proposer : Address, height : {1}, timestamp : {0}, cycles_limit : {MaxU64} ]

(***************************************************************************)
(* Option, ServiceResponse, ServiceError                                   *)
(***************************************************************************)

None == <<>>
Some(v) == << v >>

from_succeed(data) == [code |-> 0, succeed_data |-> Some(data), error_message |-> ""]
from_error(code, msg) == [code |-> code, succeed_data |-> None, error_message |-> msg]
is_error(r) == r.code # 0

NonAuthorized == from_error(101, "NonAuthorized")
JsonParse == from_error(102, "Parsing payload to json failed")

(***************************************************************************)
(* Checked arithmetic on the unsigned word, and the sort of a tier table   *)
(***************************************************************************)

\* Mutant of checked_add: the sum wraps around the word (wrapping_add).
checked_add_wrapping(a, b) ==
    IF a <= MaxU64 - b THEN Some(a + b) ELSE Some(a - (MaxU64 - b) - 1)

\* u64::checked_add: None when the sum passes the largest value.
checked_add(a, b) == IF a <= MaxU64 - b THEN Some(a + b) ELSE None

\* Mutant of checked_mul: the product stops at the largest value (saturating_mul).
checked_mul_saturating(a, b) ==
    IF a = 0 \/ b <= MaxU64 \div a THEN Some(a * b) ELSE Some(MaxU64)

\* u64::checked_mul: None when the product passes the largest value.
checked_mul(a, b) == IF a = 0 \/ b <= MaxU64 \div a THEN Some(a * b) ELSE None

\* Mutant of max: the smaller of the two.
max_as_min(a, b) == IF a <= b THEN a ELSE b

\* u64::max
max(a, b) == IF a >= b THEN a ELSE b

\* Ord for DiscountLevel compares the amounts alone.
cmp_le(x, y) == x.amount <= y.amount

\* One step of the stable sort: x goes behind every element that is not greater.
sort_insert(s, x) ==
    LET k == Cardinality({i \in 1..Len(s) : cmp_le(s[i], x)})
    IN  SubSeq(s, 1, k) \o << x >> \o SubSeq(s, k + 1, Len(s))

RECURSIVE sort_prefix(_, _)
sort_prefix(levels, n) ==
    IF n = 0 THEN << >> ELSE sort_insert(sort_prefix(levels, n - 1), levels[n])

\* Mutant of sort: the table is stored as given.
sort_skipped(levels) == levels

\* Vec::sort (stable), by Ord for DiscountLevel.
sort(levels) == sort_prefix(levels, Len(levels))

(***************************************************************************)
(* Fee and discount computation                                            *)
(***************************************************************************)

\* Mutant of scan_rev: the comparison of the loop turned around.
RECURSIVE scan_rev_flipped(_, _, _)
scan_rev_flipped(origin_fee, discount_level, i) ==
    IF i = 0 THEN 0
    ELSE IF origin_fee <= discount_level[i].amount THEN i
    ELSE scan_rev_flipped(origin_fee, discount_level, i - 1)

\* The scan `for level in discount_level.iter().rev()`: the index of the level
\* the loop breaks at, 0 when it runs to the end.
RECURSIVE scan_rev(_, _, _)
scan_rev(origin_fee, discount_level, i) ==
    IF i = 0 THEN 0
    ELSE IF origin_fee >= discount_level[i].amount THEN i
    ELSE scan_rev(origin_fee, discount_level, i - 1)

selected_level(origin_fee, discount_level) ==
    scan_rev(origin_fee, discount_level, Len(discount_level))

\* The local `discount` after the loop.
selected_discount(origin_fee, discount_level) ==
    LET i == selected_level(origin_fee, discount_level)
    IN  IF i = 0 THEN HUNDRED ELSE discount_level[i].discount_per_million

calc_discount_fee(origin_fee, discount_level) ==
    LET res == checked_mul(origin_fee, selected_discount(origin_fee, discount_level))
    IN  IF res = None THEN None ELSE Some(res[1] \div HUNDRED)

\* The response of calc_tx_fee for a stored GovernanceInfo and a profit.
tx_fee_response(gi, profit) ==
    LET tmp == checked_mul(profit, gi.profit_deduct_rate)
    IN  IF tmp # None
        THEN LET tmp_fee == calc_discount_fee(tmp[1] \div MILLION, gi.tx_fee_discount)
             IN  IF tmp_fee # None
                 THEN from_succeed(max(tmp_fee[1], gi.tx_floor_fee))
                 ELSE from_error(101, "fee overflow")
        ELSE from_error(101, "fee overflow")

(***************************************************************************)
(* The gateway and the services behind it                                  *)
(***************************************************************************)

ADMISSION_TOKEN == "governance"
Unit == "()"

\* serde_json: a text is modelled by the value it encodes, wrapped; the empty
\* wrapper is a text that does not parse.
to_string(v) == << v >>
Malformed == << >>
parses(text) == text # Malformed
from_str(text) == text[1]

\* Result; Panicked stands for a call that unwinds instead of returning.
Ok(v) == [tag |-> "Ok", val |-> v]
Err(e) == [tag |-> "Err", err |-> e]
Panicked == [tag |-> "panic"]

\* An error envelope of an upstream service.
UpstreamError == from_error(110, "upstream failure")

NativeAsset == [id |-> "native_asset_id", name |-> "native", symbol |-> "NT"]

\* What sdk.read may answer for metadata.get_metadata and asset.get_native_asset.
MetadataReads == { from_succeed(to_string(metadata)), from_succeed(Malformed), UpstreamError }
AssetReads == { from_succeed(to_string(NativeAsset)), from_succeed(Malformed), UpstreamError }
\* What sdk.write may answer.
WriteResponses == { from_succeed(to_string(Unit)), UpstreamError }

ReadRequest(ctx, token, service, method, answer) ==
    [ kind |-> "read", ctx |-> ctx, token |-> token, service |-> service,
      method |-> method, payload |-> to_string(""), resp |-> answer ]

WriteRequest(ctx, token, service, method, payload, answer) ==
    [ kind |-> "write", ctx |-> ctx, token |-> token, service |-> service,
      method |-> method, payload |-> to_string(payload), resp |-> answer ]

\* The metadata service applying an admitted update_metadata.
metadata_update(m, payload) ==
    [ m EXCEPT !.verifier_list = payload.verifier_list,
               !.interval = payload.interval,
               !.propose_ratio = payload.propose_ratio,
               !.prevote_ratio = payload.prevote_ratio,
               !.precommit_ratio = payload.precommit_ratio,
               !.brake_ratio = payload.brake_ratio ]

\* Mutant of UpdateMetadataPayload_from: two ratios change places.
UpdateMetadataPayload_from_swapped(m) ==
    [ verifier_list   |-> m.verifier_list,
      interval        |-> m.interval,
      propose_ratio   |-> m.propose_ratio,
      prevote_ratio   |-> m.precommit_ratio,
      precommit_ratio |-> m.prevote_ratio,
      brake_ratio     |-> m.brake_ratio ]

\* impl From<Metadata> for UpdateMetadataPayload
UpdateMetadataPayload_from(m) ==
    [ verifier_list   |-> m.verifier_list,
      interval        |-> m.interval,
      propose_ratio   |-> m.propose_ratio,
      prevote_ratio   |-> m.prevote_ratio,
      precommit_ratio |-> m.precommit_ratio,
      brake_ratio     |-> m.brake_ratio ]

UpdateMetadataPayloads ==
    { [ verifier_list |-> << "v1" >>, interval |-> 5000, propose_ratio |-> 16,
        prevote_ratio |-> 12, precommit_ratio |-> 13, brake_ratio |-> 8 ],
      [ verifier_list |-> << >>, interval |-> 3000, propose_ratio |-> 15,
        prevote_ratio |-> 10, precommit_ratio |-> 11, brake_ratio |-> 7 ] }

\* get_metadata on the answer of the gateway read.
get_metadata(answer) ==
    IF is_error(answer) THEN Err(from_error(answer.code, answer.error_message))
    ELSE IF ~parses(answer.succeed_data[1]) THEN Err(JsonParse)
    ELSE Ok(from_str(answer.succeed_data[1]))

\* Mutant of write_result: the answer of the write is dropped.
write_result_ignoring(answer) == Ok(Unit)

\* write_metadata / transfer_from on the answer of the gateway write.
write_result(answer) ==
    IF is_error(answer) THEN Err(from_error(answer.code, answer.error_message))
    ELSE Ok(Unit)

\* get_native_asset on the answer of the gateway read; the unwrap of a text
\* that does not parse panics.
get_native_asset(answer) ==
    IF is_error(answer) THEN Err(from_error(answer.code, answer.error_message))
    ELSE IF ~parses(answer.succeed_data[1]) THEN Panicked
    ELSE Ok(from_str(answer.succeed_data[1]))

(***************************************************************************)
(* The state after construction, and how an invocation ends                *)
(***************************************************************************)

InitialMetadata ==
    [ verifier_list |-> << >>, interval |-> 3000, propose_ratio |-> 15,
      prevote_ratio |-> 10, precommit_ratio |-> 11, brake_ratio |-> 7 ]

EmptyMap == [a \in {} |-> 0]

Init ==
    /\ info = None
    /\ fee_address = None
    /\ miner_address = None
    /\ profits = EmptyMap
    /\ metadata = InitialMetadata
    /\ call = [op |-> "new", ctx |-> None, payload |-> None]
    /\ gateway = << >>
    /\ events = << >>
    /\ resp = None
    /\ fault = FALSE
    /\ accumulated = 0

\* The service is running: genesis is done and no invocation has panicked.
Running == info # None /\ ~fault

Invoked(op, ctx, payload, gw, ev) ==
    /\ call' = [op |-> op, ctx |-> ctx, payload |-> payload]
    /\ gateway' = gw
    /\ events' = ev

\* The invocation returns response r.
Returns(r) == resp' = Some(r) /\ fault' = FALSE
\* A hook returns nothing.
ReturnsUnit == resp' = None /\ fault' = FALSE
\* The invocation panics.
Panics == resp' = None /\ fault' = TRUE

Store == << info, fee_address, miner_address >>

(***************************************************************************)
(* Genesis and the read handlers                                           *)
(***************************************************************************)

\* Mutant of init_genesis: the two addresses are stored under each other's key.
init_genesis_swapped(payload) ==
    /\ info = None /\ ~fault
    /\ Invoked("init_genesis", None, payload, << >>, << >>)
    /\ IF profits # EmptyMap
       THEN Panics /\ UNCHANGED << info, fee_address, miner_address >>
       ELSE /\ info' = Some([payload.info EXCEPT
                                !.tx_fee_discount = sort(payload.info.tx_fee_discount)])
            /\ fee_address' = Some(payload.miner_address)
            /\ miner_address' = Some(payload.fee_address)
            /\ ReturnsUnit
    /\ UNCHANGED << profits, metadata, accumulated >>

init_genesis(payload) ==
    /\ info = None /\ ~fault
    /\ Invoked("init_genesis", None, payload, << >>, << >>)
    /\ IF profits # EmptyMap
       THEN Panics /\ UNCHANGED << info, fee_address, miner_address >>
       ELSE /\ info' = Some([payload.info EXCEPT
                                !.tx_fee_discount = sort(payload.info.tx_fee_discount)])
            /\ fee_address' = Some(payload.fee_address)
            /\ miner_address' = Some(payload.miner_address)
            /\ ReturnsUnit
    /\ UNCHANGED << profits, metadata, accumulated >>

get_admin_address(ctx) ==
    /\ Running
    /\ Invoked("get_admin_address", ctx, None, << >>, << >>)
    /\ Returns(from_succeed(info[1].admin))
    /\ UNCHANGED << Store, profits, metadata, accumulated >>

get_govern_info(ctx) ==
    /\ Running
    /\ Invoked("get_govern_info", ctx, None, << >>, << >>)
    /\ Returns(from_succeed(info[1]))
    /\ UNCHANGED << Store, profits, metadata, accumulated >>

get_tx_failure_fee(ctx) ==
    /\ Running
    /\ Invoked("get_tx_failure_fee", ctx, None, << >>, << >>)
    /\ Returns(from_succeed(info[1].tx_failure_fee))
    /\ UNCHANGED << Store, profits, metadata, accumulated >>

get_tx_floor_fee(ctx) ==
    /\ Running
    /\ Invoked("get_tx_floor_fee", ctx, None, << >>, << >>)
    /\ Returns(from_succeed(info[1].tx_floor_fee))
    /\ UNCHANGED << Store, profits, metadata, accumulated >>

\* Mutant of calc_tx_fee: the query also books the profit on the caller's
\* ledger entry.
calc_tx_fee_recording(ctx, payload) ==
    /\ Running
    /\ Invoked("calc_tx_fee", ctx, payload, << >>, << >>)
    /\ Returns(tx_fee_response(info[1], payload.profit))
    /\ profits' = [a \in DOMAIN profits \cup {ctx.caller} |->
                       IF a = ctx.caller THEN payload.profit ELSE profits[a]]
    /\ UNCHANGED << Store, metadata, accumulated >>

calc_tx_fee(ctx, payload) ==
    /\ Running
    /\ Invoked("calc_tx_fee", ctx, payload, << >>, << >>)
    /\ Returns(tx_fee_response(info[1], payload.profit))
    /\ UNCHANGED << Store, profits, metadata, accumulated >>

(***************************************************************************)
(* The admin-gated write handlers                                          *)
(***************************************************************************)

\* Mutant of is_admin: every caller passes.
is_admin_anyone(ctx) == TRUE

is_admin(ctx) == info[1].admin = ctx.caller

SetAdminEvent(payload) ==
    [ name |-> "SetAdminEvent", topic |-> "Set New Admin", admin |-> payload.admin ]

\* Mutant of set_admin: the GovernanceInfo is stored anew around the new
\* admin, its discount table left empty.
set_admin_replacing(ctx, payload) ==
    /\ Running
    /\ IF ~is_admin(ctx)
       THEN /\ Invoked("set_admin", ctx, payload, << >>, << >>)
            /\ Returns(NonAuthorized)
            /\ UNCHANGED info
       ELSE /\ info' = Some([info[1] EXCEPT !.admin = payload.admin,
                                             !.tx_fee_discount = << >>])
            /\ Invoked("set_admin", ctx, payload, << >>, << SetAdminEvent(payload) >>)
            /\ Returns(from_succeed(Unit))
    /\ UNCHANGED << fee_address, miner_address, profits, metadata, accumulated >>

set_admin(ctx, payload) ==
    /\ Running
    /\ IF ~is_admin(ctx)
       THEN /\ Invoked("set_admin", ctx, payload, << >>, << >>)
            /\ Returns(NonAuthorized)
            /\ UNCHANGED info
       ELSE /\ info' = Some([info[1] EXCEPT !.admin = payload.admin])
            /\ Invoked("set_admin", ctx, payload, << >>, << SetAdminEvent(payload) >>)
            /\ Returns(from_succeed(Unit))
    /\ UNCHANGED << fee_address, miner_address, profits, metadata, accumulated >>

SetGovernInfoEvent(gi) ==
    [ name |-> "SetGovernInfoEvent", topic |-> "Set New Govern Info", info |-> gi ]

\* Mutant of set_govern_info: the check of the caller is left out.
set_govern_info_unchecked(ctx, payload) ==
    /\ Running
    /\ LET sorted == [payload.inner EXCEPT
                          !.tx_fee_discount = sort(payload.inner.tx_fee_discount)]
       IN  /\ info' = Some(sorted)
           /\ Invoked("set_govern_info", ctx, payload, << >>,
                      << SetGovernInfoEvent(sorted) >>)
           /\ Returns(from_succeed(Unit))
    /\ UNCHANGED << fee_address, miner_address, profits, metadata, accumulated >>

set_govern_info(ctx, payload) ==
    /\ Running
    /\ IF ~is_admin(ctx)
       THEN /\ Invoked("set_govern_info", ctx, payload, << >>, << >>)
            /\ Returns(NonAuthorized)
            /\ UNCHANGED info
       ELSE LET sorted == [payload.inner EXCEPT
                              !.tx_fee_discount = sort(payload.inner.tx_fee_discount)]
            IN  /\ info' = Some(sorted)
                /\ Invoked("set_govern_info", ctx, payload, << >>,
                           << SetGovernInfoEvent(sorted) >>)
                /\ Returns(from_succeed(Unit))
    /\ UNCHANGED << fee_address, miner_address, profits, metadata, accumulated >>

UpdateMetadataEvent_from(payload) ==
    [ name |-> "UpdateMetadataEvent", topic |-> "Metadata Updated",
      verifier_list   |-> payload.verifier_list,
      interval        |-> payload.interval,
      propose_ratio   |-> payload.propose_ratio,
      prevote_ratio   |-> payload.prevote_ratio,
      precommit_ratio |-> payload.precommit_ratio,
      brake_ratio     |-> payload.brake_ratio ]

\* The events of the three partial updates carry the payload's fields (their
\* topic strings are not modelled).
UpdateValidatorsEvent_from(payload) ==
    [ name |-> "UpdateValidatorsEvent",
      verifier_list |-> payload.verifier_list ]

UpdateIntervalEvent_from(payload) ==
    [ name |-> "UpdateIntervalEvent",
      interval |-> payload.interval ]

UpdateRatioEvent_from(payload) ==
    [ name |-> "UpdateRatioEvent",
      propose_ratio   |-> payload.propose_ratio,
      prevote_ratio   |-> payload.prevote_ratio,
      precommit_ratio |-> payload.precommit_ratio,
      brake_ratio     |-> payload.brake_ratio ]

\* The gateway requests of get_metadata and write_metadata.
metadata_read(ctx, answer) ==
    ReadRequest(ctx, None, "metadata", "get_metadata", answer)

\* Mutant of metadata_write: the write goes out without a token.
metadata_write_tokenless(ctx, payload, answer) ==
    WriteRequest(ctx, None, "metadata", "update_metadata", payload, answer)

metadata_write(ctx, payload, answer) ==
    WriteRequest(ctx, Some(ADMISSION_TOKEN), "metadata", "update_metadata", payload, answer)

\* wr: the answer of the gateway write.
update_metadata(ctx, payload) ==
    /\ Running
    /\ IF ~is_admin(ctx)
       THEN /\ Invoked("update_metadata", ctx, payload, << >>, << >>)
            /\ Returns(NonAuthorized)
            /\ UNCHANGED metadata
       ELSE \E wr \in WriteResponses :
            LET w == write_result(wr)
                gw == << metadata_write(ctx, payload, wr) >>
            IN  IF w.tag = "Err"
                THEN /\ Invoked("update_metadata", ctx, payload, gw, << >>)
                     /\ Returns(w.err)
                     /\ UNCHANGED metadata
                ELSE /\ metadata' = metadata_update(metadata, payload)
                     /\ Invoked("update_metadata", ctx, payload, gw,
                                << UpdateMetadataEvent_from(payload) >>)
                     /\ Returns(from_succeed(Unit))
    /\ UNCHANGED << Store, profits, accumulated >>

\* The three handlers that read the Metadata, change it and write it back.
\* rd, wr: the answers of the gateway read and write.
update_validators(ctx, payload) ==
    /\ Running
    /\ IF ~is_admin(ctx)
       THEN /\ Invoked("update_validators", ctx, payload, << >>, << >>)
            /\ Returns(NonAuthorized)
            /\ UNCHANGED metadata
       ELSE \E rd \in MetadataReads :
            LET m == get_metadata(rd)
                r == << metadata_read(ctx, rd) >>
            IN  IF m.tag = "Err"
                THEN /\ Invoked("update_validators", ctx, payload, r, << >>)
                     /\ Returns(m.err)
                     /\ UNCHANGED metadata
                ELSE \E wr \in WriteResponses :
                     LET changed == [m.val EXCEPT !.verifier_list = payload.verifier_list]
                         out == UpdateMetadataPayload_from(changed)
                         w == write_result(wr)
                         gw == r \o << metadata_write(ctx, out, wr) >>
                     IN  IF w.tag = "Err"
                         THEN /\ Invoked("update_validators", ctx, payload, gw, << >>)
                              /\ Returns(w.err)
                              /\ UNCHANGED metadata
                         ELSE /\ metadata' = metadata_update(metadata, out)
                              /\ Invoked("update_validators", ctx, payload, gw,
                                         << UpdateValidatorsEvent_from(payload) >>)
                              /\ Returns(from_succeed(Unit))
    /\ UNCHANGED << Store, profits, accumulated >>

update_interval(ctx, payload) ==
    /\ Running
    /\ IF ~is_admin(ctx)
       THEN /\ Invoked("update_interval", ctx, payload, << >>, << >>)
            /\ Returns(NonAuthorized)
            /\ UNCHANGED metadata
       ELSE \E rd \in MetadataReads :
            LET m == get_metadata(rd)
                r == << metadata_read(ctx, rd) >>
            IN  IF m.tag = "Err"
                THEN /\ Invoked("update_interval", ctx, payload, r, << >>)
                     /\ Returns(m.err)
                     /\ UNCHANGED metadata
                ELSE \E wr \in WriteResponses :
                     LET changed == [m.val EXCEPT !.interval = payload.interval]
                         out == UpdateMetadataPayload_from(changed)
                         w == write_result(wr)
                         gw == r \o << metadata_write(ctx, out, wr) >>
                     IN  IF w.tag = "Err"
                         THEN /\ Invoked("update_interval", ctx, payload, gw, << >>)
                              /\ Returns(w.err)
                              /\ UNCHANGED metadata
                         ELSE /\ metadata' = metadata_update(metadata, out)
                              /\ Invoked("update_interval", ctx, payload, gw,
                                         << UpdateIntervalEvent_from(payload) >>)
                              /\ Returns(from_succeed(Unit))
    /\ UNCHANGED << Store, profits, accumulated >>

update_ratio(ctx, payload) ==
    /\ Running
    /\ IF ~is_admin(ctx)
       THEN /\ Invoked("update_ratio", ctx, payload, << >>, << >>)
            /\ Returns(NonAuthorized)
            /\ UNCHANGED metadata
       ELSE \E rd \in MetadataReads :
            LET m == get_metadata(rd)
                r == << metadata_read(ctx, rd) >>
            IN  IF m.tag = "Err"
                THEN /\ Invoked("update_ratio", ctx, payload, r, << >>)
                     /\ Returns(m.err)
                     /\ UNCHANGED metadata
                ELSE \E wr \in WriteResponses :
                     LET changed == [m.val EXCEPT
                                        !.propose_ratio = payload.propose_ratio,
                                        !.prevote_ratio = payload.prevote_ratio,
                                        !.precommit_ratio = payload.precommit_ratio,
                                        !.brake_ratio = payload.brake_ratio]
                         out == UpdateMetadataPayload_from(changed)
                         w == write_result(wr)
                         gw == r \o << metadata_write(ctx, out, wr) >>
                     IN  IF w.tag = "Err"
                         THEN /\ Invoked("update_ratio", ctx, payload, gw, << >>)
                              /\ Returns(w.err)
                              /\ UNCHANGED metadata
                         ELSE /\ metadata' = metadata_update(metadata, out)
                              /\ Invoked("update_ratio", ctx, payload, gw,
                                         << UpdateRatioEvent_from(payload) >>)
                              /\ Returns(from_succeed(Unit))
    /\ UNCHANGED << Store, profits, accumulated >>

(***************************************************************************)
(* The profit ledger                                                       *)
(***************************************************************************)

\* StoreMap::get and StoreMap::insert
map_get(m, k) == IF k \in DOMAIN m THEN Some(m[k]) ELSE None
map_insert(m, k, v) == [a \in DOMAIN m \cup {k} |-> IF a = k THEN v ELSE m[a]]

AccmulateProfitPayloads == [ address : Address, accumulated_profit : AccumulateAmounts ]

\* Mutant of accumulate_profit: the handler is gated like the other write
\* handlers.
accumulate_profit_admin_only(ctx, payload) ==
    /\ Running
    /\ accumulated < MaxAccumulate
    /\ accumulated' = accumulated + 1
    /\ Invoked("accumulate_profit", ctx, payload, << >>, << >>)
    /\ LET address == payload.address
           new_profit == payload.accumulated_profit
           profit == map_get(profits, address)
       IN  IF ~is_admin(ctx)
           THEN Returns(NonAuthorized) /\ UNCHANGED profits
           ELSE IF profit # None
           THEN LET profit_sum == checked_add(profit[1], new_profit)
                IN  IF profit_sum # None
                    THEN /\ profits' = map_insert(profits, address, profit_sum[1])
                         /\ Returns(from_succeed(Unit))
                    ELSE /\ Returns(from_error(101, "profit overflow"))
                         /\ UNCHANGED profits
           ELSE /\ profits' = map_insert(profits, address, new_profit)
                /\ Returns(from_succeed(Unit))
    /\ UNCHANGED << Store, metadata >>

accumulate_profit(ctx, payload) ==
    /\ Running
    /\ accumulated < MaxAccumulate
    /\ accumulated' = accumulated + 1
    /\ Invoked("accumulate_profit", ctx, payload, << >>, << >>)
    /\ LET address == payload.address
           new_profit == payload.accumulated_profit
           profit == map_get(profits, address)
       IN  IF profit # None
           THEN LET profit_sum == checked_add(profit[1], new_profit)
                IN  IF profit_sum # None
                    THEN /\ profits' = map_insert(profits, address, profit_sum[1])
                         /\ Returns(from_succeed(Unit))
                    ELSE /\ Returns(from_error(101, "profit overflow"))
                         /\ UNCHANGED profits
           ELSE /\ profits' = map_insert(profits, address, new_profit)
                /\ Returns(from_succeed(Unit))
    /\ UNCHANGED << Store, metadata >>

(***************************************************************************)
(* The hooks                                                               *)
(***************************************************************************)

TransferFromPayload(asset_id, sender, recipient, value) ==
    [ asset_id |-> asset_id, sender |-> sender, recipient |-> recipient, value |-> value ]

\* The gateway requests of get_native_asset and transfer_from.
asset_read(ctx, answer) ==
    ReadRequest(ctx, Some(ADMISSION_TOKEN), "asset", "get_native_asset", answer)
transfer_from(ctx, payload, answer) ==
    WriteRequest(ctx, Some(ADMISSION_TOKEN), "asset", "transfer_from", payload, answer)

\* The orders in which StoreMap::iter may yield the keys of the ledger.
IterOrders(m) ==
    LET n == Cardinality(DOMAIN m)
    IN  { s \in [1..n -> DOMAIN m] : \A a \in DOMAIN m : \E i \in 1..n : s[i] = a }

\* Mutant of settle: the loop returns at the first entry whose fee overflows
\* and after the first transfer answered with an error.
RECURSIVE settle_aborting(_, _, _, _, _, _)
settle_aborting(ctx, gi, asset, order, wr, i) ==
    IF i > Len(order) THEN << >>
    ELSE LET addr == order[i]
             profit == profits[addr]
             tmp_fee == checked_mul(profit, gi.profit_deduct_rate)
             rest == settle_aborting(ctx, gi, asset, order, wr, i + 1)
         IN  IF tmp_fee = None THEN << >>
             ELSE LET fee == calc_discount_fee(tmp_fee[1], gi.tx_fee_discount)
                  IN  IF fee = None THEN << >>
                      ELSE << transfer_from(ctx,
                                 TransferFromPayload(asset.id, addr, fee_address[1],
                                                     max(fee[1], gi.tx_floor_fee)),
                                 wr[addr]) >>
                           \o (IF is_error(wr[addr]) THEN << >> ELSE rest)

\* The loop of tx_hook_after_ over the collected ledger from position i on:
\* the transfer_from requests it issues.  wr[addr] is the answer to the
\* transfer for addr; the loop ignores it.
RECURSIVE settle(_, _, _, _, _, _)
settle(ctx, gi, asset, order, wr, i) ==
    IF i > Len(order) THEN << >>
    ELSE LET addr == order[i]
             profit == profits[addr]
             tmp_fee == checked_mul(profit, gi.profit_deduct_rate)
             rest == settle(ctx, gi, asset, order, wr, i + 1)
         IN  IF tmp_fee = None THEN rest
             ELSE LET fee == calc_discount_fee(tmp_fee[1], gi.tx_fee_discount)
                  IN  IF fee = None THEN rest
                      ELSE << transfer_from(ctx,
                                 TransferFromPayload(asset.id, addr, fee_address[1],
                                                     max(fee[1], gi.tx_floor_fee)),
                                 wr[addr]) >> \o rest

\* Mutant of tx_hook_after_: the ledger is cleared once it is settled.
tx_hook_after_clearing(ctx) ==
    /\ Running
    /\ \E rd \in AssetReads :
       LET asset == get_native_asset(rd)
       IN  IF asset.tag # "Ok"
           THEN /\ Invoked("tx_hook_after_", ctx, None, << asset_read(ctx, rd) >>, << >>)
                /\ Panics
                /\ UNCHANGED profits
           ELSE \E order \in IterOrders(profits), wr \in [DOMAIN profits -> WriteResponses] :
                /\ Invoked("tx_hook_after_", ctx, None,
                           << asset_read(ctx, rd) >>
                               \o settle(ctx, info[1], asset.val, order, wr, 1),
                           << >>)
                /\ ReturnsUnit
                /\ profits' = EmptyMap
    /\ UNCHANGED << Store, metadata, accumulated >>

\* rd: the answer of the gateway read of the native asset; order: the order
\* the ledger iterates in; wr: the answers of the transfers.
tx_hook_after_(ctx) ==
    /\ Running
    /\ \E rd \in AssetReads :
       LET asset == get_native_asset(rd)
       IN  IF asset.tag # "Ok"
           THEN /\ Invoked("tx_hook_after_", ctx, None, << asset_read(ctx, rd) >>, << >>)
                /\ Panics
           ELSE \E order \in IterOrders(profits), wr \in [DOMAIN profits -> WriteResponses] :
                /\ Invoked("tx_hook_after_", ctx, None,
                           << asset_read(ctx, rd) >>
                               \o settle(ctx, info[1], asset.val, order, wr, 1),
                           << >>)
                /\ ReturnsUnit
    /\ UNCHANGED << Store, profits, metadata, accumulated >>

\* The context hook_after_ builds for its gateway calls.
ServiceContext_new(params, sender_address) ==
    [ caller |-> sender_address, cycles_used |-> 0, events |-> << >> ]

\* rd: the answer of the gateway read of the native asset; wr: the answer of
\* the transfer.
hook_after_(params) ==
    /\ Running
    /\ \E rd \in AssetReads :
       LET sender_address == miner_address[1]
           ctx == ServiceContext_new(params, sender_address)
           asset == get_native_asset(rd)
       IN  IF asset.tag # "Ok"
           THEN /\ Invoked("hook_after_", None, params, << asset_read(ctx, rd) >>, << >>)
                /\ Panics
           ELSE \E wr \in WriteResponses :
                /\ Invoked("hook_after_", None, params,
                           << asset_read(ctx, rd),
                              transfer_from(ctx,
                                  TransferFromPayload(asset.val.id, sender_address,
                                                      params.proposer,
                                                      info[1].miner_benefit),
                                  wr) >>,
                           << >>)
                /\ ReturnsUnit
    /\ UNCHANGED << Store, profits, metadata, accumulated >>

(***************************************************************************)
(* The service: genesis, then any handler or hook                          *)
(***************************************************************************)

Next ==
    \/ \E payload \in GenesisPayloads : init_genesis(payload)
    \/ \E ctx \in Contexts : get_admin_address(ctx)
    \/ \E ctx \in Contexts : get_govern_info(ctx)
    \/ \E ctx \in Contexts : get_tx_failure_fee(ctx)
    \/ \E ctx \in Contexts : get_tx_floor_fee(ctx)
    \/ \E ctx \in Contexts, profit \in FeeProfits : calc_tx_fee(ctx, [profit |-> profit])
    \/ \E ctx \in Contexts, admin \in Address : set_admin(ctx, [admin |-> admin])
    \/ \E ctx \in Contexts, inner \in GovernInfos : set_govern_info(ctx, [inner |-> inner])
    \/ \E ctx \in Contexts, payload \in UpdateMetadataPayloads : update_metadata(ctx, payload)
    \/ \E ctx \in Contexts, v \in Validators : update_validators(ctx, [verifier_list |-> v])
    \/ \E ctx \in Contexts, i \in Intervals : update_interval(ctx, [interval |-> i])
    \/ \E ctx \in Contexts, payload \in Ratios : update_ratio(ctx, payload)
    \/ \E ctx \in Contexts, payload \in AccmulateProfitPayloads :
            accumulate_profit(ctx, payload)
    \/ \E ctx \in Contexts : tx_hook_after_(ctx)
    \/ \E params \in ExecutorParams : hook_after_(params)

Spec == Init /\ [][Next]_vars

(***************************************************************************)
(* The fee computation on its own: any stored GovernanceInfo with a sorted *)
(* table of up to MaxTiers tiers, then calc_tx_fee and calc_discount_fee   *)
(* applied to it                                                           *)
(***************************************************************************)

MaxTiers == 2

FeeAmounts == {0, 100, 1000}
FeeRatios == {50, HUNDRED, MILLION, MaxU64}
FeeLevels == { DiscountLevel(a, r) : a \in FeeAmounts, r \in FeeRatios }

IsSortedByAmount(t) == \A i \in 1..(Len(t) - 1) : t[i].amount <= t[i + 1].amount

FeeTables ==
    { t \in UNION { [1..n -> FeeLevels] : n \in 0..MaxTiers } : IsSortedByAmount(t) }

FeeInfos ==
    [ admin              : {"alice"},
      tx_failure_fee     : {10},
      tx_floor_fee       : {0, 100},
      profit_deduct_rate : {1, MILLION, MaxU64},
      tx_fee_discount    : FeeTables,
      miner_benefit      : {160} ]

FeeSpecProfits == {0, 50, 1000, 2000, MaxU64}
OriginFees == {0, 50, 100, 999, 1000, 5000}

\* The state init_genesis leaves for a payload carrying gi.
FeeInit ==
    \E gi \in FeeInfos :
        /\ info = Some(gi)
        /\ fee_address = Some("fee_account")
        /\ miner_address = Some("miner_account")
        /\ profits = EmptyMap
        /\ metadata = InitialMetadata
        /\ call = [ op |-> "init_genesis", ctx |-> None,
                    payload |-> [ info |-> gi, fee_address |-> "fee_account",
                                  miner_address |-> "miner_account" ] ]
        /\ gateway = << >>
        /\ events = << >>
        /\ resp = None
        /\ fault = FALSE
        /\ accumulated = 0

\* One application of calc_discount_fee to the stored table: what it selects
\* (the index the scan stops at, the local discount) and what it returns.
apply_calc_discount_fee(origin_fee) ==
    /\ Running
    /\ Invoked("calc_discount_fee", None, [origin_fee |-> origin_fee], << >>, << >>)
    /\ Returns([ level    |-> selected_level(origin_fee, info[1].tx_fee_discount),
                 discount |-> selected_discount(origin_fee, info[1].tx_fee_discount),
                 fee      |-> calc_discount_fee(origin_fee, info[1].tx_fee_discount) ])
    /\ UNCHANGED << Store, profits, metadata, accumulated >>

FeeNext ==
    \/ \E ctx \in Contexts, profit \in FeeSpecProfits : calc_tx_fee(ctx, [profit |-> profit])
    \/ \E origin_fee \in OriginFees : apply_calc_discount_fee(origin_fee)

FeeSpec == FeeInit /\ [][FeeNext]_vars

(***************************************************************************)
(* The dispatcher executing blocks: for each transaction of a block its     *)
(* primary method, then the post-transaction hook under the transaction's   *)
(* context; after the last transaction the post-block hook.  The position   *)
(* of the dispatcher is read off the last invocation.                       *)
(***************************************************************************)

\* How many blocks a run executes, and how many transactions a block holds at most.
MaxHeight == 2
MaxBlockTxs == 2

\* The context of the transaction at place `index` of the block at `height`.
BlockContexts ==
    [ caller : Address, cycles_used : {21000}, events : {<< >>},
      height : 1..MaxHeight, index : 1..MaxBlockTxs ]

BlockParams ==
    [ proposer : Address, height : 1..MaxHeight, timestamp : {0}, cycles_limit : {MaxU64} ]

\* The methods a transaction may name.
WriteMethods ==
    { "set_admin", "set_govern_info", "update_metadata", "update_validators",
      "update_interval", "update_ratio", "accumulate_profit" }

\* The height of the last block the dispatcher has finished.
FinishedHeight ==
    IF call.op = "hook_after_" THEN call.payload.height ELSE 0

\* No block is open: genesis is done, or the post-block hook of the last
\* block has run.
BetweenBlocks == call.op \in {"init_genesis", "hook_after_"}

\* Mutant of TxDue: the next transaction starts as soon as the primary
\* method of the one before has returned, its hook left out.
TxDue_hook_skipped(ctx) ==
    \/ BetweenBlocks /\ ctx.height = FinishedHeight + 1 /\ ctx.index = 1
    \/ /\ call.op \in WriteMethods \cup {"tx_hook_after_"}
       /\ ctx.height = call.ctx.height
       /\ ctx.index = call.ctx.index + 1

\* The transaction of context ctx is the next to execute: the first of the
\* next block, or the one after a transaction whose hook has run.
TxDue(ctx) ==
    \/ BetweenBlocks /\ ctx.height = FinishedHeight + 1 /\ ctx.index = 1
    \/ /\ call.op = "tx_hook_after_"
       /\ ctx.height = call.ctx.height
       /\ ctx.index = call.ctx.index + 1

\* The primary method of the next transaction.
exec_tx(ctx) ==
    /\ TxDue(ctx)
    /\ \/ \E admin \in Address : set_admin(ctx, [admin |-> admin])
       \/ \E inner \in GovernInfos : set_govern_info(ctx, [inner |-> inner])
       \/ \E payload \in UpdateMetadataPayloads : update_metadata(ctx, payload)
       \/ \E v \in Validators : update_validators(ctx, [verifier_list |-> v])
       \/ \E i \in Intervals : update_interval(ctx, [interval |-> i])
       \/ \E payload \in Ratios : update_ratio(ctx, payload)
       \/ \E payload \in AccmulateProfitPayloads : accumulate_profit(ctx, payload)

\* The post-transaction hook of the transaction whose primary method has
\* just returned, under that transaction's context.
exec_tx_hook ==
    /\ call.op \in WriteMethods
    /\ tx_hook_after_(call.ctx)

\* The post-block hook: of an empty block, or after the hook of the block's
\* last transaction.
exec_block_hook(params) ==
    /\ \/ BetweenBlocks /\ params.height = FinishedHeight + 1
       \/ call.op = "tx_hook_after_" /\ params.height = call.ctx.height
    /\ hook_after_(params)

BlockNext ==
    \/ \E payload \in GenesisPayloads : init_genesis(payload)
    \/ \E ctx \in BlockContexts : exec_tx(ctx)
    \/ exec_tx_hook
    \/ \E params \in BlockParams : exec_block_hook(params)

BlockSpec == Init /\ [][BlockNext]_vars

(***************************************************************************)
(* Properties                                                              *)
(***************************************************************************)

AdminGated ==
    { "set_admin", "set_govern_info", "update_metadata", "update_validators",
      "update_interval", "update_ratio" }

\* C1: a call of an admin-gated write handler by a caller that is not the
\* stored admin returns the error response with code 101, leaves the
\* GovernanceInfo and the Metadata as they were, issues no gateway request
\* and emits no event.
C1_NonAdminRejected ==
    [][ (/\ info # None
         /\ call'.op \in AdminGated
         /\ call'.ctx.caller # info[1].admin)
        => /\ resp' # None
           /\ resp'[1].code = 101
           /\ is_error(resp'[1])
           /\ info' = info
           /\ metadata' = metadata
           /\ gateway' = << >>
           /\ events' = << >> ]_vars

\* A gated handler has just turned a caller away.
C1_Witness ==
    /\ info # None
    /\ call.op = "update_interval"
    /\ call.ctx.caller # info[1].admin
    /\ resp = Some(NonAuthorized)

\* Two tables hold the same levels, each as often.
SameLevels(s, t) ==
    /\ Len(s) = Len(t)
    /\ \A i \in 1..Len(s) :
          Cardinality({j \in 1..Len(s) : s[j] = s[i]})
              = Cardinality({j \in 1..Len(t) : t[j] = s[i]})

\* C2: the stored tx_fee_discount is sorted ascending by amount in every state
\* after genesis; after init_genesis or a successful set_govern_info it holds
\* the levels of the payload's table, and get_govern_info returns it sorted.
C2_TableSorted ==
    info # None =>
        /\ IsSortedByAmount(info[1].tx_fee_discount)
        /\ call.op = "init_genesis" =>
              SameLevels(info[1].tx_fee_discount, call.payload.info.tx_fee_discount)
        /\ (call.op = "set_govern_info" /\ ~is_error(resp[1])) =>
              SameLevels(info[1].tx_fee_discount, call.payload.inner.tx_fee_discount)
        /\ call.op = "get_govern_info" =>
              /\ resp[1].succeed_data[1] = info[1]
              /\ IsSortedByAmount(resp[1].succeed_data[1].tx_fee_discount)

\* set_govern_info has stored a table that came unsorted.
C2_Witness ==
    /\ call.op = "set_govern_info"
    /\ ~is_error(resp[1])
    /\ ~IsSortedByAmount(call.payload.inner.tx_fee_discount)
    /\ Len(info[1].tx_fee_discount) = 2

\* C3: when the ledger entry of the address plus the amount passes the largest
\* u64, accumulate_profit returns the "profit overflow" error response and the
\* whole ledger stays as it was.
C3_ProfitOverflow ==
    [][ (/\ call'.op = "accumulate_profit"
         /\ call'.payload.address \in DOMAIN profits
         /\ profits[call'.payload.address] > MaxU64 - call'.payload.accumulated_profit)
        => /\ resp' # None
           /\ is_error(resp'[1])
           /\ resp'[1].error_message = "profit overflow"
           /\ profits' = profits ]_vars

\* accumulate_profit(addr, largest) then accumulate_profit(addr, 1): the entry
\* still holds the largest value.
C3_Witness ==
    /\ call.op = "accumulate_profit"
    /\ call.payload.accumulated_profit = 1
    /\ is_error(resp[1])
    /\ profits[call.payload.address] = MaxU64

\* C4: a success response of calc_tx_fee carries a value that is at least the
\* stored tx_floor_fee.
C4_FloorEnforced ==
    (call.op = "calc_tx_fee" /\ ~is_error(resp[1]))
        => resp[1].succeed_data[1] >= info[1].tx_floor_fee

\* calc_tx_fee answered with the floor, the discounted fee being below it.
C4_Witness ==
    /\ call.op = "calc_tx_fee"
    /\ ~is_error(resp[1])
    /\ info[1].tx_floor_fee = 100
    /\ resp[1].succeed_data[1] = 100
    /\ call.payload.profit = 50

\* C5: under tx_floor_fee = 100, profit_deduct_rate = 1_000_000 and the one
\* tier {amount: 0, discount_per_million: 1_000_000}, calc_tx_fee(50) returns
\* success with fee 100, and calc_tx_fee(p) returns max(p, tx_floor_fee)
\* whenever it succeeds.
C5_ScenarioFee ==
    (/\ call.op = "calc_tx_fee"
     /\ info[1].tx_floor_fee = 100
     /\ info[1].profit_deduct_rate = MILLION
     /\ info[1].tx_fee_discount = << DiscountLevel(0, MILLION) >>)
    => /\ call.payload.profit = 50 => resp = Some(from_succeed(100))
       /\ ~is_error(resp[1]) =>
             resp[1].succeed_data[1] = max(call.payload.profit, info[1].tx_floor_fee)

\* The level calc_discount_fee selected in an application, as its threshold:
\* -1 when the scan ran to the end.
SelectedAmount(r) ==
    IF r.level = 0 THEN -1 ELSE info[1].tx_fee_discount[r.level].amount

\* C6 as stated: of two applications of calc_discount_fee to the stored
\* (sorted) table, the one with the greater origin_fee selects a discount
\* ratio that is at least the other's.
C6_RatioMonotone ==
    [][ (/\ call.op = "calc_discount_fee"
         /\ call'.op = "calc_discount_fee"
         /\ call.payload.origin_fee < call'.payload.origin_fee)
        => resp'[1].discount >= resp[1].discount ]_vars

\* C6 as amended: of two applications of calc_discount_fee to the stored
\* (sorted) table, the one with the greater origin_fee selects a level at the
\* same place or further up the table, whose threshold amount is at least
\* the other's (an application that selects no level counts as lowest).
C6_LevelMonotone ==
    [][ (/\ call.op = "calc_discount_fee"
         /\ call'.op = "calc_discount_fee"
         /\ call.payload.origin_fee < call'.payload.origin_fee)
        => /\ resp'[1].level >= resp[1].level
           /\ SelectedAmount(resp'[1]) >= SelectedAmount(resp[1]) ]_vars

\* An application has selected the upper of two levels, whose ratio is the smaller.
C6_Witness ==
    /\ call.op = "calc_discount_fee"
    /\ Len(info[1].tx_fee_discount) = 2
    /\ resp[1].level = 2
    /\ resp[1].discount < info[1].tx_fee_discount[1].discount_per_million
    /\ info[1].tx_fee_discount[1].amount < info[1].tx_fee_discount[2].amount

\* a * b passes the largest u64.
Overflows(a, b) == a > 0 /\ b > MaxU64 \div a

\* The second product of calc_tx_fee passes the largest u64, the first does not.
DiscountOverflows(gi, profit) ==
    /\ ~Overflows(profit, gi.profit_deduct_rate)
    /\ LET origin_fee == (profit * gi.profit_deduct_rate) \div MILLION
       IN  Overflows(origin_fee, selected_discount(origin_fee, gi.tx_fee_discount))

\* C7: when profit * profit_deduct_rate or the product of the discounted fee
\* passes the largest u64, calc_tx_fee returns an error response, and does
\* not panic.
C7_FeeOverflow ==
    (/\ call.op = "calc_tx_fee"
     /\ \/ Overflows(call.payload.profit, info[1].profit_deduct_rate)
        \/ DiscountOverflows(info[1], call.payload.profit))
    => /\ ~fault
       /\ resp # None
       /\ is_error(resp[1])

\* calc_tx_fee has answered an overflow of the second product with an error.
C7_Witness ==
    /\ call.op = "calc_tx_fee"
    /\ DiscountOverflows(info[1], call.payload.profit)
    /\ is_error(resp[1])
    /\ resp[1].error_message = "fee overflow"

\* C8: no handler and no hook panics, whatever the gateway answers.
C8_NoFault == ~fault

\* The requests of the last invocation that are gateway writes.
Writes == SelectSeq(gateway, LAMBDA q : q.kind = "write")

\* No gateway request of the invocation that ends in the next state was
\* answered with an error or with a text that does not parse.
GatewayAnsweredOk ==
    \A i \in 1..Len(gateway') :
        /\ ~is_error(gateway'[i].resp)
        /\ parses(gateway'[i].resp.succeed_data[1])

\* What the handler must have asked of the gateway: the read, then the write
\* of the Metadata read with the handler's fields replaced.
ReadThenWrite(gw, ctx, expected(_)) ==
    /\ Len(gw) = 2
    /\ gw[1] = metadata_read(ctx, gw[1].resp)
    /\ gw[2] = metadata_write(ctx, expected(from_str(gw[1].resp.succeed_data[1])), gw[2].resp)

\* C9: when the admin calls update_interval(x) and the gateway read and write
\* succeed, the Metadata written is the one read with interval x and every
\* other field as read, and the one event emitted is UpdateIntervalEvent{x};
\* likewise update_validators changes verifier_list alone and update_ratio
\* the four ratios alone.
C9_UpdateFrame ==
    [][ (/\ info # None
         /\ call'.op \in {"update_interval", "update_validators", "update_ratio"}
         /\ call'.ctx.caller = info[1].admin
         /\ GatewayAnsweredOk)
        => LET p == call'.payload
               gw == gateway'
           IN  /\ resp' = Some(from_succeed(Unit))
               /\ call'.op = "update_interval" =>
                     /\ ReadThenWrite(gw, call'.ctx,
                            LAMBDA m : [ verifier_list   |-> m.verifier_list,
                                         interval        |-> p.interval,
                                         propose_ratio   |-> m.propose_ratio,
                                         prevote_ratio   |-> m.prevote_ratio,
                                         precommit_ratio |-> m.precommit_ratio,
                                         brake_ratio     |-> m.brake_ratio ])
                     /\ Len(events') = 1
                     /\ events'[1].name = "UpdateIntervalEvent"
                     /\ events'[1].interval = p.interval
               /\ call'.op = "update_validators" =>
                     /\ ReadThenWrite(gw, call'.ctx,
                            LAMBDA m : [ verifier_list   |-> p.verifier_list,
                                         interval        |-> m.interval,
                                         propose_ratio   |-> m.propose_ratio,
                                         prevote_ratio   |-> m.prevote_ratio,
                                         precommit_ratio |-> m.precommit_ratio,
                                         brake_ratio     |-> m.brake_ratio ])
                     /\ Len(events') = 1
                     /\ events'[1].name = "UpdateValidatorsEvent"
                     /\ events'[1].verifier_list = p.verifier_list
               /\ call'.op = "update_ratio" =>
                     /\ ReadThenWrite(gw, call'.ctx,
                            LAMBDA m : [ verifier_list   |-> m.verifier_list,
                                         interval        |-> m.interval,
                                         propose_ratio   |-> p.propose_ratio,
                                         prevote_ratio   |-> p.prevote_ratio,
                                         precommit_ratio |-> p.precommit_ratio,
                                         brake_ratio     |-> p.brake_ratio ])
                     /\ Len(events') = 1
                     /\ events'[1].name = "UpdateRatioEvent"
                     /\ events'[1].propose_ratio = p.propose_ratio
                     /\ events'[1].prevote_ratio = p.prevote_ratio
                     /\ events'[1].precommit_ratio = p.precommit_ratio
                     /\ events'[1].brake_ratio = p.brake_ratio ]_vars

\* The admin's update_interval(5000) has gone through on a Metadata whose
\* other fields were no longer the initial ones.
C9_Witness ==
    /\ call.op = "update_interval"
    /\ call.payload.interval = 5000
    /\ resp = Some(from_succeed(Unit))
    /\ Len(gateway) = 2
    /\ from_str(gateway[1].resp.succeed_data[1]).interval = 3000
    /\ from_str(gateway[1].resp.succeed_data[1]).verifier_list = << "v1" >>
    /\ from_str(gateway[1].resp.succeed_data[1]).prevote_ratio = 12
    /\ metadata.interval = 5000

\* C10: an execution of hook_after_ issues exactly one transfer_from, from
\* the stored miner_address to the block's proposer, of miner_benefit, under
\* a context whose caller is miner_address, whose cycles-used counter is 0
\* and whose event log is empty.
C10_OneMinerTransfer ==
    call.op = "hook_after_" =>
        /\ Len(Writes) = 1
        /\ Writes[1] =
              transfer_from([caller |-> miner_address[1], cycles_used |-> 0, events |-> << >>],
                            TransferFromPayload(NativeAsset.id, miner_address[1],
                                                call.payload.proposer,
                                                info[1].miner_benefit),
                            Writes[1].resp)

\* C11: init_genesis stores the fee_address and the miner_address of its
\* payload, and once genesis is done no step of any handler or hook changes
\* either of them.
C11_AddressesImmutable ==
    [][ /\ (info = None /\ info' # None) =>
              /\ fee_address' = Some(call'.payload.fee_address)
              /\ miner_address' = Some(call'.payload.miner_address)
        /\ info # None =>
              /\ fee_address # None
              /\ miner_address # None
              /\ fee_address' = fee_address
              /\ miner_address' = miner_address ]_vars

\* The admin has handed the service over, the ledger has entries, and the
\* two addresses are those of genesis.
C11_Witness ==
    /\ call.op = "set_admin"
    /\ resp = Some(from_succeed(Unit))
    /\ call.payload.admin # call.ctx.caller
    /\ profits # EmptyMap
    /\ fee_address = Some("fee_account")
    /\ miner_address = Some("miner_account")

ReadOnly ==
    { "get_admin_address", "get_govern_info", "get_tx_failure_fee", "get_tx_floor_fee",
      "calc_tx_fee" }

\* C12: a step of a read-only handler leaves the GovernanceInfo, the two
\* addresses and the profit ledger as they were; get_govern_info returns the
\* stored GovernanceInfo, so that of two calls in a row the second returns
\* what the first did.
C12_ReadOnlyFrame ==
    [][ /\ call'.op \in ReadOnly =>
              /\ info' = info
              /\ fee_address' = fee_address
              /\ miner_address' = miner_address
              /\ profits' = profits
        /\ call'.op = "get_govern_info" => resp' = Some(from_succeed(info[1]))
        /\ (call.op = "get_govern_info" /\ call'.op = "get_govern_info") =>
              resp' = resp ]_vars

\* get_govern_info has answered after the GovernanceInfo was replaced and the
\* ledger filled.
C12_Witness ==
    /\ call.op = "get_govern_info"
    /\ resp = Some(from_succeed(info[1]))
    /\ Len(info[1].tx_fee_discount) = 2
    /\ profits # EmptyMap

\* The tiers of table t that qualify for origin_fee f.
Qualifying(t, f) == { i \in 1..Len(t) : t[i].amount <= f }

\* C14: on the stored (sorted) table, calc_discount_fee selects the ratio of
\* the tier with the greatest amount not above origin_fee, or 100 when no tier
\* qualifies, and divides by one scale throughout: when it returns a fee, an
\* application in which no tier qualifies returns origin_fee unchanged, and so
\* does one that selects a tier whose discount_per_million is 1_000_000.
C14_DiscountFee ==
    call.op = "calc_discount_fee" =>
        LET t == info[1].tx_fee_discount
            f == call.payload.origin_fee
            r == resp[1]
        IN  /\ Qualifying(t, f) = {} => r.discount = HUNDRED
            /\ Qualifying(t, f) # {} =>
                  \E i \in Qualifying(t, f) :
                      /\ \A j \in Qualifying(t, f) : t[j].amount <= t[i].amount
                      /\ r.discount = t[i].discount_per_million
            /\ r.fee # None =>
                  /\ Qualifying(t, f) = {} => r.fee[1] = f
                  /\ (Qualifying(t, f) # {} /\ r.discount = MILLION) => r.fee[1] = f

\* The fee of the post-transaction hook for a ledger entry computes: neither
\* profit * profit_deduct_rate nor the product of the discount passes the
\* largest u64.
HookFeeComputes(gi, profit) ==
    /\ ~Overflows(profit, gi.profit_deduct_rate)
    /\ calc_discount_fee(profit * gi.profit_deduct_rate, gi.tx_fee_discount) # None

\* max(calc_discount_fee(profit * profit_deduct_rate, tiers), tx_floor_fee)
HookFee(gi, profit) ==
    max(calc_discount_fee(profit * gi.profit_deduct_rate, gi.tx_fee_discount)[1],
        gi.tx_floor_fee)

\* The places among the gateway writes of the last invocation of the
\* transfers whose sender is addr.
TransfersFrom(addr) ==
    { i \in 1..Len(Writes) :
          /\ Writes[i].service = "asset"
          /\ Writes[i].method = "transfer_from"
          /\ from_str(Writes[i].payload).sender = addr }

\* The transfer the post-transaction hook owes for addr, as answered.
HookTransfer(addr, answer) ==
    transfer_from(call.ctx,
                  TransferFromPayload(NativeAsset.id, addr, fee_address[1],
                                      HookFee(info[1], profits[addr])),
                  answer)

\* C15: an execution of tx_hook_after_ issues, for every ledger address whose
\* fee computes, exactly one transfer_from, from that address to fee_address,
\* of max(calc_discount_fee(profit * profit_deduct_rate, tiers), tx_floor_fee);
\* every transfer it issues is of at least tx_floor_fee.
C15_HookTransfers ==
    call.op = "tx_hook_after_" =>
        /\ \A addr \in DOMAIN profits :
               HookFeeComputes(info[1], profits[addr]) =>
                   \E i \in TransfersFrom(addr) :
                       /\ TransfersFrom(addr) = {i}
                       /\ Writes[i] = HookTransfer(addr, Writes[i].resp)
        /\ \A i \in 1..Len(Writes) :
               from_str(Writes[i].payload).value >= info[1].tx_floor_fee

\* C16: the value of every transfer the post-transaction hook issues for a
\* ledger address is the fee calc_tx_fee reports for that address's ledger
\* profit under the stored GovernanceInfo.
C16_HookFeeIsTxFee ==
    call.op = "tx_hook_after_" =>
        \A i \in 1..Len(Writes) :
            LET payload == from_str(Writes[i].payload)
            IN  tx_fee_response(info[1], profits[payload.sender])
                    = from_succeed(payload.value)

\* The last invocation got the native asset from the gateway, so that the
\* loop of tx_hook_after_ ran.
LoopRan ==
    /\ Len(gateway) >= 1
    /\ get_native_asset(gateway[1].resp).tag = "Ok"

\* The ledger addresses the loop failed on: the fee overflowed, or the
\* transfer was answered with an error.
FailedAddresses ==
    { a \in DOMAIN profits :
          \/ ~HookFeeComputes(info[1], profits[a])
          \/ \E i \in TransfersFrom(a) : is_error(Writes[i].resp) }

\* C17: in an execution of tx_hook_after_ whose loop ran and failed on some
\* ledger address (its fee overflowed, or its transfer_from was answered with
\* an error), a transfer_from is still issued for every ledger address whose
\* fee computes, and the hook returns.
C17_LoopGoesOn ==
    (call.op = "tx_hook_after_" /\ LoopRan /\ FailedAddresses # {}) =>
        /\ ~fault
        /\ \A addr \in DOMAIN profits :
               HookFeeComputes(info[1], profits[addr]) =>
                   \E i \in TransfersFrom(addr) :
                       Writes[i] = HookTransfer(addr, Writes[i].resp)

\* The first transfer of the loop was answered with an error and the second,
\* for the other address, was issued all the same.
C17_Witness ==
    /\ call.op = "tx_hook_after_"
    /\ Len(Writes) = 2
    /\ is_error(Writes[1].resp)
    /\ from_str(Writes[1].payload).sender # from_str(Writes[2].payload).sender

\* C18: a step of tx_hook_after_ or hook_after_ leaves the profit ledger, the
\* GovernanceInfo, fee_address and miner_address as they were, and no step of
\* any operation removes a ledger entry or makes it smaller.
C18_LedgerKept ==
    [][ /\ call'.op \in {"tx_hook_after_", "hook_after_"} =>
              /\ profits' = profits
              /\ info' = info
              /\ fee_address' = fee_address
              /\ miner_address' = miner_address
        /\ \A a \in DOMAIN profits :
              /\ a \in DOMAIN profits'
              /\ profits'[a] >= profits[a] ]_vars

\* tx_hook_after_ has issued the transfers of a ledger of two entries, and
\* the ledger holds both entries still.
C18_Witness ==
    /\ call.op = "tx_hook_after_"
    /\ Len(Writes) = 2
    /\ \A i \in 1..2 : ~is_error(Writes[i].resp)
    /\ \A i \in 1..2 : profits[from_str(Writes[i].payload).sender] = 1

\* C19: settled amounts are charged again: of two executions of
\* tx_hook_after_ in a row, with no accumulate_profit in between, the later
\* issues again every transfer the earlier issued (same sender, same
\* recipient fee_address, same value computed from the whole ledger entry).
C19_Recharged ==
    [][ (call.op = "tx_hook_after_" /\ call'.op = "tx_hook_after_") =>
            \A i \in 1..Len(Writes) :
                \E j \in 1..Len(Writes') :
                    from_str(Writes'[j].payload) = from_str(Writes[i].payload) ]_vars

ReadThenWriteOps == { "update_validators", "update_interval", "update_ratio" }

\* The error response a handler returns for an upstream answer: its code and
\* its message, nothing else.
Propagated(answer) == Some(from_error(answer.code, answer.error_message))

\* C20: in update_validators, update_interval and update_ratio called by the
\* admin, a gateway read answered with an error is followed by no gateway
\* write and no event; in those three and in update_metadata a gateway write
\* answered with an error is followed by no event; either way the response
\* carries the code and the message of the upstream answer.
C20_UpstreamErrors ==
    [][ (/\ info # None
         /\ call'.op \in ReadThenWriteOps \cup {"update_metadata"}
         /\ call'.ctx.caller = info[1].admin)
        => LET gw == gateway'
               last == gw[Len(gw)]
           IN  /\ Len(gw) >= 1
               /\ (call'.op \in ReadThenWriteOps /\ is_error(gw[1].resp)) =>
                     /\ gw[1].kind = "read"
                     /\ Len(gw) = 1
                     /\ events' = << >>
                     /\ resp' = Propagated(gw[1].resp)
               /\ (last.kind = "write" /\ is_error(last.resp)) =>
                     /\ events' = << >>
                     /\ resp' = Propagated(last.resp) ]_vars

\* The admin's update_ratio read the Metadata, and its write was answered
\* with an error.
C20_Witness ==
    /\ call.op = "update_ratio"
    /\ Len(gateway) = 2
    /\ ~is_error(gateway[1].resp)
    /\ is_error(gateway[2].resp)
    /\ resp = Some(UpstreamError)
    /\ events = << >>

\* C13: under the dispatcher's schedule, the step after the return of a
\* transaction's primary method, whatever it returned, is the
\* post-transaction hook under that transaction's context, and the hook runs
\* at no other point; the post-block hook of a block runs only when no
\* transaction is waiting for its hook, closes the block (the next
\* transaction is the first of the next height), and so runs once a block.
C13_HookSchedule ==
    [][ /\ call.op \in WriteMethods =>
              /\ resp # None
              /\ call'.op = "tx_hook_after_"
              /\ call'.ctx = call.ctx
        /\ call'.op = "tx_hook_after_" =>
              /\ call.op \in WriteMethods
              /\ call'.ctx = call.ctx
        /\ call'.op = "hook_after_" =>
              /\ call.op \in {"init_genesis", "hook_after_", "tx_hook_after_"}
              /\ call'.payload.height =
                     (IF call.op = "tx_hook_after_" THEN call.ctx.height
                      ELSE FinishedHeight + 1)
        /\ call'.op \in WriteMethods =>
              IF call.op = "tx_hook_after_"
              THEN /\ call'.ctx.height = call.ctx.height
                   /\ call'.ctx.index = call.ctx.index + 1
              ELSE /\ call.op \in {"init_genesis", "hook_after_"}
                   /\ call'.ctx.height = FinishedHeight + 1
                   /\ call'.ctx.index = 1 ]_vars

\* The post-block hook of the second block has run, after two
\* accumulate_profit transactions of which the second returned the overflow
\* error.
C13_Witness ==
    /\ call.op = "hook_after_"
    /\ call.payload.height = 2
    /\ ~fault
    /\ accumulated = 2
    /\ DOMAIN profits = {"alice"}
    /\ profits["alice"] = MaxU64

\* C21: a set_admin(new_admin) by the stored admin succeeds, changes the admin
\* field of the GovernanceInfo and nothing else (the other fields, the ledger
\* and the two addresses stay), and emits the one SetAdminEvent; in the step
\* after it, an admin-gated call by new_admin is not turned away with 101,
\* and one by any other caller, the old admin included, is.
C21_AuthorityMoves ==
    [][ /\ (/\ info # None
            /\ call'.op = "set_admin"
            /\ call'.ctx.caller = info[1].admin)
           => /\ resp' = Some(from_succeed(Unit))
              /\ info' # None
              /\ info'[1].admin = call'.payload.admin
              /\ info'[1].tx_failure_fee = info[1].tx_failure_fee
              /\ info'[1].tx_floor_fee = info[1].tx_floor_fee
              /\ info'[1].profit_deduct_rate = info[1].profit_deduct_rate
              /\ info'[1].tx_fee_discount = info[1].tx_fee_discount
              /\ info'[1].miner_benefit = info[1].miner_benefit
              /\ profits' = profits
              /\ fee_address' = fee_address
              /\ miner_address' = miner_address
              /\ Len(events') = 1
              /\ events'[1].name = "SetAdminEvent"
              /\ events'[1].admin = call'.payload.admin
        /\ (/\ call.op = "set_admin"
            /\ resp # None
            /\ ~is_error(resp[1])
            /\ call'.op \in AdminGated)
           => /\ resp' # None
              /\ call'.ctx.caller = call.payload.admin => resp'[1].code # 101
              /\ call'.ctx.caller # call.payload.admin => resp'[1] = NonAuthorized ]_vars

\* The admin has handed the service to another address: the stored admin is
\* the payload's, the event is out.
C21_Witness ==
    /\ call.op = "set_admin"
    /\ resp = Some(from_succeed(Unit))
    /\ call.payload.admin # call.ctx.caller
    /\ info[1].admin = call.payload.admin
    /\ Len(info[1].tx_fee_discount) = 2
    /\ events = << SetAdminEvent(call.payload) >>

\* C22: after genesis the stored admin changes only in a step of set_admin
\* or set_govern_info that succeeds and whose caller is the admin stored
\* before the step.
C22_AdminChanges ==
    [][ (info # None /\ info' # None /\ info'[1].admin # info[1].admin)
        => /\ call'.op \in {"set_admin", "set_govern_info"}
           /\ call'.ctx.caller = info[1].admin
           /\ resp' # None
           /\ ~is_error(resp'[1]) ]_vars

\* set_govern_info has replaced the GovernanceInfo, its admin with it.
C22_Witness ==
    /\ call.op = "set_govern_info"
    /\ resp = Some(from_succeed(Unit))
    /\ call.payload.inner.admin # call.ctx.caller
    /\ info[1].admin = call.payload.inner.admin

\* The ledger entry of an address, 0 when it has none.
Entry(m, a) == IF a \in DOMAIN m THEN m[a] ELSE 0

\* C23: accumulate_profit by any caller, admin or not, succeeds when the
\* entry of the payload's address plus the amount does not pass the largest
\* u64; the entry is then the old one (0 if there was none) plus the amount,
\* every other entry is as it was, the GovernanceInfo and the two addresses
\* are as they were, and no event is emitted.
C23_Accumulates ==
    [][ (/\ call'.op = "accumulate_profit"
         /\ Entry(profits, call'.payload.address)
                <= MaxU64 - call'.payload.accumulated_profit)
        => LET a == call'.payload.address
           IN  /\ resp' = Some(from_succeed(Unit))
               /\ DOMAIN profits' = DOMAIN profits \cup {a}
               /\ profits'[a] = Entry(profits, a) + call'.payload.accumulated_profit
               /\ \A b \in DOMAIN profits \ {a} : profits'[b] = profits[b]
               /\ info' = info
               /\ fee_address' = fee_address
               /\ miner_address' = miner_address
               /\ events' = << >> ]_vars

\* A caller that is not the admin has added 1 to an entry that held 1.
C23_Witness ==
    /\ call.op = "accumulate_profit"
    /\ call.ctx.caller # info[1].admin
    /\ resp = Some(from_succeed(Unit))
    /\ call.payload.accumulated_profit = 1
    /\ accumulated = 2
    /\ DOMAIN profits = {call.payload.address}
    /\ profits[call.payload.address] = 2

\* C24: the error response of an arithmetic overflow, in calc_tx_fee or in
\* accumulate_profit, carries a code that is neither 101 (NonAuthorized) nor
\* 102 (JsonParse).
C24_OverflowCode ==
    (/\ call.op \in {"calc_tx_fee", "accumulate_profit"}
     /\ resp # None
     /\ is_error(resp[1])
     /\ resp[1].error_message \in {"fee overflow", "profit overflow"})
    => /\ resp[1].code # NonAuthorized.code
       /\ resp[1].code # JsonParse.code

HookOps == { "tx_hook_after_", "hook_after_" }

\* C25: every gateway write of an invocation carries the governance
\* admission token; a write to the metadata service is update_metadata,
\* issued by one of the four update handlers called by the stored admin; a
\* write to the asset service is transfer_from, issued by a hook; outside
\* the hooks no invocation by a caller other than the admin issues a write.
C25_WritesAdmitted ==
    [][ info # None =>
          \A i \in 1..Len(gateway') :
              gateway'[i].kind = "write" =>
                  /\ gateway'[i].token = Some(ADMISSION_TOKEN)
                  /\ gateway'[i].service \in {"metadata", "asset"}
                  /\ gateway'[i].service = "metadata" =>
                        /\ gateway'[i].method = "update_metadata"
                        /\ call'.op \in ReadThenWriteOps \cup {"update_metadata"}
                        /\ call'.ctx.caller = info[1].admin
                  /\ gateway'[i].service = "asset" =>
                        /\ gateway'[i].method = "transfer_from"
                        /\ call'.op \in HookOps
                  /\ call'.op \notin HookOps => call'.ctx.caller = info[1].admin ]_vars

\* The admin's update_validators has read the Metadata and written it back
\* under the admission token.
C25_Witness ==
    /\ call.op = "update_validators"
    /\ Len(gateway) = 2
    /\ gateway[2].kind = "write"
    /\ gateway[2].token = Some("governance")
    /\ resp = Some(from_succeed(Unit))

====
